---- MODULE Spec2Model ----
(***************************************************************************)
(* The URL fetcher of cpp/net/url_fetcher.cc: UrlFetcher::Fetch, the       *)
(* per-request State object (NormaliseRequest, the constructor,            *)
(* MakeRequest, RequestDone), together with the collaborators it drives:   *)
(* the util::Task it completes, the libevent dispatch thread that runs its *)
(* steps, the ConnectionPool it takes connections from and the evhttp      *)
(* transport that calls it back.                                           *)
(*                                                                         *)
(* Strings that the code compares character by character (header names)   *)
(* are sequences of character codes; every other string is atomic.        *)
(***************************************************************************)
EXTENDS Integers, Sequences, FiniteSets, TLC

\* ------------------------------------------------------------------ bounds

\* Number of Fetch calls (one State object each).
NumTxns == 1
\* The steady clock runs from 1 to MaxTime.
MaxTime == 3
\* Largest explicit deadline a caller passes.
MaxDeadline == 2
\* Most headers a caller puts in a request of the normalisation runs.
MaxHeaders == 2

Txns == 1 .. NumTxns

\* ------------------------------------------------------- header multimaps

\* tolower() on one character code.
ToLower(c) == IF c >= 65 /\ c <= 90 THEN c + 32 ELSE c

\* ci_less<std::string>: lexicographic order of the lower-cased strings.
RECURSIVE CiLess(_, _)
CiLess(a, b) ==
  IF b = <<>> THEN FALSE
  ELSE IF a = <<>> THEN TRUE
  ELSE IF ToLower(Head(a)) < ToLower(Head(b)) THEN TRUE
  ELSE IF ToLower(Head(b)) < ToLower(Head(a)) THEN FALSE
  ELSE CiLess(Tail(a), Tail(b))

\* Two keys are the same key of the multimap when neither orders first.
KeyEquiv(a, b) == ~CiLess(a, b) /\ ~CiLess(b, a)

\* Headers::find(key) != end(): some entry has an equivalent key.
HeadersFind(h, key) == \E i \in 1 .. Len(h) : KeyEquiv(h[i][1], key)

\* Headers::insert(pair): a multimap keeps its entries ordered by key, and a
\* new entry goes after the entries whose key is not greater (upper bound).
HeadersInsert(h, p) ==
  LET n == Cardinality({i \in 1 .. Len(h) : ~CiLess(p[1], h[i][1])})
  IN SubSeq(h, 1, n) \o <<p>> \o SubSeq(h, n + 1, Len(h))

\* The multimap obtained by inserting the pairs of a list one after another.
RECURSIVE HeadersFromList(_)
HeadersFromList(l) ==
  IF l = <<>> THEN <<>>
  ELSE HeadersInsert(HeadersFromList(SubSeq(l, 1, Len(l) - 1)), l[Len(l)])

\* The literal "Host" of NormaliseRequest.
HostKey == <<72, 111, 115, 116>>

\* ----------------------------------------------------------- normalisation

\* --url_fetcher_default_timeout_seconds, as the flag is defined.
DefaultTimeoutSeconds == 60

\* NormaliseRequest with Headers::find comparing keys exactly.
NormaliseRequest_ExactFind(req, clock, timeout) ==
  LET d == IF req.deadline = 0 THEN clock + timeout ELSE req.deadline
      p == IF req.url.path = "" THEN "/" ELSE req.url.path
      h == IF \E i \in 1 .. Len(req.headers) : req.headers[i][1] = HostKey
           THEN req.headers
           ELSE HeadersInsert(req.headers, <<HostKey, req.url.host>>)
  IN [req EXCEPT !.deadline = d, !.url.path = p, !.headers = h]

\* NormaliseRequest leaving a zero deadline as it is.
NormaliseRequest_KeepsZero(req, clock, timeout) ==
  LET p == IF req.url.path = "" THEN "/" ELSE req.url.path
      h == IF ~HeadersFind(req.headers, HostKey)
           THEN HeadersInsert(req.headers, <<HostKey, req.url.host>>)
           ELSE req.headers
  IN [req EXCEPT !.url.path = p, !.headers = h]

\* NormaliseRequest leaving an empty path as it is.
NormaliseRequest_KeepsEmptyPath(req, clock, timeout) ==
  LET d == IF req.deadline = 0 THEN clock + timeout ELSE req.deadline
      h == IF ~HeadersFind(req.headers, HostKey)
           THEN HeadersInsert(req.headers, <<HostKey, req.url.host>>)
           ELSE req.headers
  IN [req EXCEPT !.deadline = d, !.headers = h]

\* NormaliseRequest(req): clock is steady_clock::now(), timeout the flag.
NormaliseRequest(req, clock, timeout) ==
  LET d == IF req.deadline = 0 THEN clock + timeout ELSE req.deadline
      p == IF req.url.path = "" THEN "/" ELSE req.url.path
      h == IF ~HeadersFind(req.headers, HostKey)
           THEN HeadersInsert(req.headers, <<HostKey, req.url.host>>)
           ELSE req.headers
  IN [req EXCEPT !.deadline = d, !.url.path = p, !.headers = h]

\* ------------------------------------------------------------------ values

\* A connection handle of the pool: the host it connects to and its number.
\* NoConn is the empty evhttp_connection_unique_ptr.
NoConn == [key |-> "", id |-> 0]

\* No Request stored yet (no State object constructed).
NoRequest == [verb |-> "GET", url |-> [protocol |-> "", host |-> "", path |-> "", query |-> ""],
              headers |-> <<>>, body |-> "", deadline |-> 0]

\* Response(): status_code 0, no headers, empty body.
DefaultResponse == [status_code |-> 0, headers |-> <<>>, body |-> ""]

\* No wire request handed to evhttp_make_request.
NoWire == [cmd |-> "", uri |-> <<"", "">>, headers |-> <<>>, body |-> ""]

\* RequestDone has not been called.
NoCallback == [null |-> TRUE, code |-> -1, headers |-> <<>>, body |-> ""]

\* An entry of the per-transaction record of calls: Get and Put on the pool,
\* evhttp_make_request, and task_->Return(st).
Ev(e, s) == [ev |-> e, st |-> s]

Count(l, e) == Cardinality({i \in 1 .. Len(l) : l[i].ev = e})

\* The statuses passed to Return, in call order.
RECURSIVE Returns(_)
Returns(l) ==
  IF l = <<>> THEN <<>>
  ELSE IF Head(l).ev = "Return" THEN <<Head(l).st>> \o Returns(Tail(l))
  ELSE Returns(Tail(l))

\* VerbToCmdType.
VerbToCmdType(verb) ==
  CASE verb = "GET" -> "EVHTTP_REQ_GET"
    [] verb = "POST" -> "EVHTTP_REQ_POST"
    [] verb = "PUT" -> "EVHTTP_REQ_PUT"
    [] verb = "DELETE" -> "EVHTTP_REQ_DELETE"

\* ------------------------------------------------------------------- state

VARIABLES
  now,        \* steady_clock::now()
  flag,       \* FLAGS_url_fetcher_default_timeout_seconds
  fetch_pc,   \* where each Fetch call stands on its calling thread
  request0,   \* the Request each caller passed to Fetch
  response0,  \* the Response object each caller passed, as it was passed
  request_,   \* State::request_
  response_,  \* the object State::response_ points to
  conn_,      \* State::conn_
  state_,     \* the State object: "none", "alive" or "destroyed"
  holds,      \* the task's outstanding holds
  done,       \* the task has finished (its done transition has happened)
  log,        \* the calls each transaction has made, in order
  mr_clock,   \* the clock MakeRequest read (0: it has not run)
  rd_clock,   \* the clock when RequestDone ran (0: it has not run)
  scheduled,  \* closures added to the event base and not yet run
  pending,    \* requests the transport holds, callback still to come
  wire,       \* what evhttp_make_request was given
  cb,         \* what the transport passed to RequestDone (NoCallback: not called)
  idle,       \* the pool's idle connections
  created,    \* connections the pool has created
  crashed     \* a CHECK failed or a dangling access faulted: the process is gone

vars == <<now, flag, fetch_pc, request0, response0, request_, response_, conn_, state_,
          holds, done, log, mr_clock, rd_clock, scheduled, pending, wire, cb, idle, created,
          crashed>>

\* -------------------------------------------------------- connection pool

\* ConnectionPool::Get(url): an idle connection to the url's host when there
\* is one, a newly created connection otherwise.
PoolGet(idleSet, n, host) ==
  IF \E h \in idleSet : h.key = host
  THEN LET h == CHOOSE x \in idleSet : x.key = host
       IN [conn |-> h, idle |-> idleSet \ {h}, created |-> n]
  ELSE [conn |-> [key |-> host, id |-> n + 1], idle |-> idleSet, created |-> n + 1]

\* ConnectionPool::Put(conn): the connection is idle again.
PoolPut(idleSet, c) == idleSet \cup {c}

\* --------------------------------------------------------------- the task

\* Fetch taking no hold on the task.
HoldTask_Missing(h) == h

\* TaskHold's constructor and destructor on the count of holds.
HoldTask(h) == h + 1

ReleaseHold(h) == h - 1

\* A task finishes once Return has been called and no hold is left.
TaskFinishes(l, h) == Count(l, "Return") > 0 /\ h = 0

\* ------------------------------------------------- the steps of a State

\* State::State after the member initialisers: the protocol check.
ConstructEvents(req) ==
  IF req.url.protocol # "http"
  THEN <<Ev("Return", "INVALID_ARGUMENT")>>
  ELSE <<>>

\* The deadline check letting a deadline equal to the clock pass.
DeadlineExpired_Strict(req, clock) == req.deadline - clock < 0

\* MakeRequest's deadline check: deadline_left.count() <= 0.
DeadlineExpired(req, clock) == req.deadline - clock <= 0

\* The evhttp_request MakeRequest builds and submits.
WireRequest(req) ==
  [cmd |-> VerbToCmdType(req.verb), uri |-> <<req.url.path, req.url.query>>,
   headers |-> req.headers, body |-> req.body]

\* MakeRequest returning the task before it puts the connection back when
\* evhttp_make_request fails.
MakeRequestStep_ReturnBeforePut(req, clock, addOk, submitOk, idleSet, n) ==
  IF DeadlineExpired(req, clock)
  THEN [events |-> <<Ev("Return", "DEADLINE_EXCEEDED")>>, conn |-> NoConn,
        idle |-> idleSet, created |-> n, sent |-> FALSE]
  ELSE IF req.body # "" /\ ~addOk
  THEN [events |-> <<Ev("Return", "INTERNAL")>>, conn |-> NoConn,
        idle |-> idleSet, created |-> n, sent |-> FALSE]
  ELSE LET g == PoolGet(idleSet, n, req.url.host)
       IN IF ~submitOk
          THEN [events |-> <<Ev("Get", ""), Ev("Submit", "error"),
                             Ev("Return", "INTERNAL"), Ev("Put", "")>>,
                conn |-> NoConn, idle |-> PoolPut(g.idle, g.conn),
                created |-> g.created, sent |-> FALSE]
          ELSE [events |-> <<Ev("Get", ""), Ev("Submit", "ok")>>,
                conn |-> g.conn, idle |-> g.idle, created |-> g.created, sent |-> TRUE]

\* MakeRequest putting the connection back without giving it up when
\* evhttp_make_request fails.
MakeRequestStep_KeepsConnOnError(req, clock, addOk, submitOk, idleSet, n) ==
  IF DeadlineExpired(req, clock)
  THEN [events |-> <<Ev("Return", "DEADLINE_EXCEEDED")>>, conn |-> NoConn,
        idle |-> idleSet, created |-> n, sent |-> FALSE]
  ELSE IF req.body # "" /\ ~addOk
  THEN [events |-> <<Ev("Return", "INTERNAL")>>, conn |-> NoConn,
        idle |-> idleSet, created |-> n, sent |-> FALSE]
  ELSE LET g == PoolGet(idleSet, n, req.url.host)
       IN IF ~submitOk
          THEN [events |-> <<Ev("Get", ""), Ev("Submit", "error"), Ev("Put", ""),
                             Ev("Return", "INTERNAL")>>,
                conn |-> g.conn, idle |-> PoolPut(g.idle, g.conn),
                created |-> g.created, sent |-> FALSE]
          ELSE [events |-> <<Ev("Get", ""), Ev("Submit", "ok")>>,
                conn |-> g.conn, idle |-> g.idle, created |-> g.created, sent |-> TRUE]

\* MakeRequest leaving the request with the transport when
\* evhttp_make_request fails, so that RequestDone is still called.
MakeRequestStep_CallbackOnError(req, clock, addOk, submitOk, idleSet, n) ==
  IF DeadlineExpired(req, clock)
  THEN [events |-> <<Ev("Return", "DEADLINE_EXCEEDED")>>, conn |-> NoConn,
        idle |-> idleSet, created |-> n, sent |-> FALSE]
  ELSE IF req.body # "" /\ ~addOk
  THEN [events |-> <<Ev("Return", "INTERNAL")>>, conn |-> NoConn,
        idle |-> idleSet, created |-> n, sent |-> FALSE]
  ELSE LET g == PoolGet(idleSet, n, req.url.host)
       IN IF ~submitOk
          THEN [events |-> <<Ev("Get", ""), Ev("Submit", "error")>>,
                conn |-> g.conn, idle |-> g.idle,
                created |-> g.created, sent |-> TRUE]
          ELSE [events |-> <<Ev("Get", ""), Ev("Submit", "ok")>>,
                conn |-> g.conn, idle |-> g.idle, created |-> g.created, sent |-> TRUE]

\* MakeRequest trying a second connection when evhttp_make_request fails.
MakeRequestStep_RetryOnError(req, clock, addOk, submitOk, idleSet, n) ==
  IF DeadlineExpired(req, clock)
  THEN [events |-> <<Ev("Return", "DEADLINE_EXCEEDED")>>, conn |-> NoConn,
        idle |-> idleSet, created |-> n, sent |-> FALSE]
  ELSE IF req.body # "" /\ ~addOk
  THEN [events |-> <<Ev("Return", "INTERNAL")>>, conn |-> NoConn,
        idle |-> idleSet, created |-> n, sent |-> FALSE]
  ELSE LET g == PoolGet(idleSet, n, req.url.host)
       IN IF ~submitOk
          THEN LET g2 == PoolGet(PoolPut(g.idle, g.conn), g.created, req.url.host)
               IN [events |-> <<Ev("Get", ""), Ev("Submit", "error"), Ev("Put", ""),
                                Ev("Get", ""), Ev("Submit", "error"), Ev("Put", ""),
                                Ev("Return", "INTERNAL")>>,
                   conn |-> NoConn, idle |-> PoolPut(g2.idle, g2.conn),
                   created |-> g2.created, sent |-> FALSE]
          ELSE [events |-> <<Ev("Get", ""), Ev("Submit", "ok")>>,
                conn |-> g.conn, idle |-> g.idle, created |-> g.created, sent |-> TRUE]

\* MakeRequest checking the deadline once it holds the connection.
MakeRequestStep_DeadlineAfterGet(req, clock, addOk, submitOk, idleSet, n) ==
  IF req.body # "" /\ ~addOk
  THEN [events |-> <<Ev("Return", "INTERNAL")>>, conn |-> NoConn,
        idle |-> idleSet, created |-> n, sent |-> FALSE]
  ELSE LET g == PoolGet(idleSet, n, req.url.host)
       IN IF DeadlineExpired(req, clock)
          THEN [events |-> <<Ev("Get", ""), Ev("Put", ""),
                             Ev("Return", "DEADLINE_EXCEEDED")>>,
                conn |-> NoConn, idle |-> PoolPut(g.idle, g.conn),
                created |-> g.created, sent |-> FALSE]
          ELSE IF ~submitOk
          THEN [events |-> <<Ev("Get", ""), Ev("Submit", "error"), Ev("Put", ""),
                             Ev("Return", "INTERNAL")>>,
                conn |-> NoConn, idle |-> PoolPut(g.idle, g.conn),
                created |-> g.created, sent |-> FALSE]
          ELSE [events |-> <<Ev("Get", ""), Ev("Submit", "ok")>>,
                conn |-> g.conn, idle |-> g.idle, created |-> g.created, sent |-> TRUE]

\* The body of MakeRequest after its CHECKs. addOk: evbuffer_add_reference
\* succeeds; submitOk: evhttp_make_request succeeds.
MakeRequestStep(req, clock, addOk, submitOk, idleSet, n) ==
  IF DeadlineExpired(req, clock)
  THEN [events |-> <<Ev("Return", "DEADLINE_EXCEEDED")>>, conn |-> NoConn,
        idle |-> idleSet, created |-> n, sent |-> FALSE]
  ELSE IF req.body # "" /\ ~addOk
  THEN [events |-> <<Ev("Return", "INTERNAL")>>, conn |-> NoConn,
        idle |-> idleSet, created |-> n, sent |-> FALSE]
  ELSE LET g == PoolGet(idleSet, n, req.url.host)
       IN IF ~submitOk
          THEN [events |-> <<Ev("Get", ""), Ev("Submit", "error"), Ev("Put", ""),
                             Ev("Return", "INTERNAL")>>,
                conn |-> NoConn, idle |-> PoolPut(g.idle, g.conn),
                created |-> g.created, sent |-> FALSE]
          ELSE [events |-> <<Ev("Get", ""), Ev("Submit", "ok")>>,
                conn |-> g.conn, idle |-> g.idle, created |-> g.created, sent |-> TRUE]

\* The test of the status code letting 100 fail too.
StatusTooLow_Inclusive(code) == code <= 100

\* RequestDone's test of the status code.
StatusTooLow(code) == code < 100

\* RequestDone testing for the null request before it puts the connection back.
RequestDoneStep_NullBeforePut(resp, c, r, idleSet) ==
  IF r.null
  THEN [events |-> <<Ev("Return", "UNKNOWN")>>, conn |-> c,
        idle |-> idleSet, response |-> resp]
  ELSE IF StatusTooLow(r.code)
  THEN [events |-> <<Ev("Put", ""), Ev("Return", "FAILED_PRECONDITION")>>, conn |-> NoConn,
        idle |-> PoolPut(idleSet, c),
        response |-> [resp EXCEPT !.status_code = r.code]]
  ELSE [events |-> <<Ev("Put", ""), Ev("Return", "OK")>>, conn |-> NoConn,
        idle |-> PoolPut(idleSet, c),
        response |-> [status_code |-> r.code, headers |-> HeadersFromList(r.headers),
                      body |-> r.body]]

\* RequestDone clearing the output headers before it tests the status code.
RequestDoneStep_ClearsEarly(resp, c, r, idleSet) ==
  IF r.null
  THEN [events |-> <<Ev("Put", ""), Ev("Return", "UNKNOWN")>>, conn |-> NoConn,
        idle |-> PoolPut(idleSet, c), response |-> resp]
  ELSE IF StatusTooLow(r.code)
  THEN [events |-> <<Ev("Put", ""), Ev("Return", "FAILED_PRECONDITION")>>, conn |-> NoConn,
        idle |-> PoolPut(idleSet, c),
        response |-> [resp EXCEPT !.status_code = r.code, !.headers = <<>>]]
  ELSE [events |-> <<Ev("Put", ""), Ev("Return", "OK")>>, conn |-> NoConn,
        idle |-> PoolPut(idleSet, c),
        response |-> [status_code |-> r.code, headers |-> HeadersFromList(r.headers),
                      body |-> r.body]]

\* The body of RequestDone after its CHECKs. r is what the transport passes:
\* r.null for a null evhttp_request, else its code, header list and body.
\* The connection is put back first; status_code is stored before it is
\* tested; headers and body are replaced only past the test.
RequestDoneStep(resp, c, r, idleSet) ==
  IF r.null
  THEN [events |-> <<Ev("Put", ""), Ev("Return", "UNKNOWN")>>, conn |-> NoConn,
        idle |-> PoolPut(idleSet, c), response |-> resp]
  ELSE IF StatusTooLow(r.code)
  THEN [events |-> <<Ev("Put", ""), Ev("Return", "FAILED_PRECONDITION")>>, conn |-> NoConn,
        idle |-> PoolPut(idleSet, c),
        response |-> [resp EXCEPT !.status_code = r.code]]
  ELSE [events |-> <<Ev("Put", ""), Ev("Return", "OK")>>, conn |-> NoConn,
        idle |-> PoolPut(idleSet, c),
        response |-> [status_code |-> r.code, headers |-> HeadersFromList(r.headers),
                      body |-> r.body]]

\* What a step of transaction t that made the calls ev and leaves conn_ = c
\* does to the task and to the State object. A Return on a task that has
\* already been returned is either ignored or fatal (dbl); a task that
\* finishes deletes the State, whose destructor CHECKs that conn_ is empty.
Finish(t, ev, c, dbl) ==
  LET returnsNow == Count(ev, "Return") > 0
      second == returnsNow /\ Count(log[t], "Return") > 0
      fin == returnsNow /\ ~done[t] /\ TaskFinishes(log[t] \o ev, holds[t])
  IN /\ log' = [log EXCEPT ![t] = @ \o ev]
     /\ conn_' = [conn_ EXCEPT ![t] = c]
     /\ done' = [done EXCEPT ![t] = @ \/ fin]
     /\ state_' = [state_ EXCEPT ![t] = IF fin /\ @ = "alive" THEN "destroyed" ELSE @]
     /\ crashed' = ((second /\ dbl = "abort") \/ (fin /\ state_[t] = "alive" /\ c # NoConn))

\* ----------------------------------------------------------------- actions

\* UrlFetcher::Fetch up to DeleteWhenDone: the hold, new State (which
\* normalises the request and checks the protocol), DeleteWhenDone.
FetchConstruct(t, req, resp) ==
  /\ ~crashed
  /\ fetch_pc[t] = "idle"
  /\ LET nreq == NormaliseRequest(req, now, flag)
         ev == ConstructEvents(nreq)
         h == HoldTask(holds[t])
         fin == TaskFinishes(ev, h)
     IN /\ holds' = [holds EXCEPT ![t] = h]
        /\ request_' = [request_ EXCEPT ![t] = nreq]
        /\ log' = [log EXCEPT ![t] = ev]
        /\ done' = [done EXCEPT ![t] = fin]
        /\ state_' = [state_ EXCEPT ![t] = IF fin THEN "destroyed" ELSE "alive"]
  /\ request0' = [request0 EXCEPT ![t] = req]
  /\ response0' = [response0 EXCEPT ![t] = resp]
  /\ response_' = [response_ EXCEPT ![t] = resp]
  /\ fetch_pc' = [fetch_pc EXCEPT ![t] = "constructed"]
  /\ UNCHANGED <<now, flag, conn_, mr_clock, rd_clock, scheduled, pending, wire, cb, idle,
                 created, crashed>>

\* UrlFetcher::Fetch: base_->Add(bind(&State::MakeRequest, state)).
FetchAdd(t) ==
  /\ ~crashed
  /\ fetch_pc[t] = "constructed"
  /\ fetch_pc' = [fetch_pc EXCEPT ![t] = "added"]
  /\ scheduled' = scheduled \cup {t}
  /\ UNCHANGED <<now, flag, request0, response0, request_, response_, conn_, state_,
                 holds, done, log, mr_clock, rd_clock, pending, wire, cb, idle, created,
                 crashed>>

\* UrlFetcher::Fetch returns: the TaskHold goes out of scope.
FetchRelease(t) ==
  /\ ~crashed
  /\ fetch_pc[t] = "added"
  /\ fetch_pc' = [fetch_pc EXCEPT ![t] = "returned"]
  /\ LET h == ReleaseHold(holds[t])
         fin == ~done[t] /\ TaskFinishes(log[t], h)
     IN /\ holds' = [holds EXCEPT ![t] = h]
        /\ done' = [done EXCEPT ![t] = @ \/ fin]
        /\ state_' = [state_ EXCEPT ![t] = IF fin /\ @ = "alive" THEN "destroyed" ELSE @]
        /\ crashed' = (fin /\ state_[t] = "alive" /\ conn_[t] # NoConn)
  /\ UNCHANGED <<now, flag, request0, response0, request_, response_, conn_,
                 log, mr_clock, rd_clock, scheduled, pending, wire, cb, idle, created>>

\* The process aborts inside a step of the dispatch thread.
Abort ==
  /\ crashed' = TRUE
  /\ UNCHANGED <<now, flag, fetch_pc, request0, response0, request_, response_, conn_,
                 state_, holds, done, log, mr_clock, rd_clock, wire, cb, idle, created>>

\* The dispatch thread runs the closure Fetch added: State::MakeRequest.
\* On a deleted State the access either faults or finds the object's last
\* contents (ub).
MakeRequest(t, addOk, submitOk, ub, dbl) ==
  /\ ~crashed
  /\ t \in scheduled
  /\ scheduled' = scheduled \ {t}
  /\ IF (state_[t] = "destroyed" /\ ub = "fault") \/ conn_[t] # NoConn
     THEN Abort /\ UNCHANGED pending
     ELSE LET s == MakeRequestStep(request_[t], now, addOk, submitOk, idle, created)
          IN /\ Finish(t, s.events, s.conn, dbl)
             /\ idle' = s.idle
             /\ created' = s.created
             /\ pending' = IF s.sent THEN pending \cup {t} ELSE pending
             /\ wire' = [wire EXCEPT ![t] = IF Count(s.events, "Submit") > 0
                                            THEN WireRequest(request_[t]) ELSE @]
             /\ mr_clock' = [mr_clock EXCEPT ![t] = now]
             /\ UNCHANGED <<now, flag, fetch_pc, request0, response0, request_,
                            response_, holds, cb, rd_clock>>

\* The transport calls RequestCallback, that is State::RequestDone(req).
RequestDone(t, r, ub, dbl) ==
  /\ ~crashed
  /\ t \in pending
  /\ pending' = pending \ {t}
  /\ IF (state_[t] = "destroyed" /\ ub = "fault") \/ conn_[t] = NoConn
     THEN Abort /\ UNCHANGED scheduled
     ELSE LET s == RequestDoneStep(response_[t], conn_[t], r, idle)
          IN /\ Finish(t, s.events, s.conn, dbl)
             /\ idle' = s.idle
             /\ response_' = [response_ EXCEPT ![t] = s.response]
             /\ cb' = [cb EXCEPT ![t] = r]
             /\ rd_clock' = [rd_clock EXCEPT ![t] = now]
             /\ UNCHANGED <<now, flag, fetch_pc, request0, response0, request_,
                            holds, mr_clock, scheduled, wire, created>>

\* The steady clock advances.
Tick ==
  /\ ~crashed
  /\ now < MaxTime
  /\ now' = now + 1
  /\ UNCHANGED <<flag, fetch_pc, request0, response0, request_, response_, conn_, state_,
                 holds, done, log, mr_clock, rd_clock, scheduled, pending, wire, cb, idle,
                 created, crashed>>

\* ------------------------------------------------------------------ inputs

\* Header names callers and servers use: "host", "HOST", "A", "Hos".
HostLower == <<104, 111, 115, 116>>

HostUpper == <<72, 79, 83, 84>>

NameA == <<65>>

NameHos == <<72, 111, 115>>

\* A Response object that has been used before.
UsedResponse ==
  [status_code |-> 200, headers |-> HeadersFromList(<<<<NameA, "old">>>>), body |-> "old"]

\* What the transport hands to the callback for a null evhttp_request.
NullReq == [null |-> TRUE, code |-> 0, headers |-> <<>>, body |-> ""]

\* The values the timeout flag is started with; gflags accepts any int32,
\* a negative one included.
TimeoutFlags == {-1, 1, DefaultTimeoutSeconds}

\* Inputs of the runs with concurrent Fetch calls.
Requests ==
  [verb : {"GET"},
   url : [protocol : {"http", "https"}, host : {"a"}, path : {""}, query : {""}],
   headers : {<<>>},
   body : {"", "x"},
   deadline : 1 .. MaxDeadline]

Responses == {DefaultResponse}

TransportResponses ==
  {NullReq,
   [null |-> FALSE, code |-> 99, headers |-> <<>>, body |-> ""],
   [null |-> FALSE, code |-> 100, headers |-> << <<NameA, "1">> >>, body |-> "b"]}

\* Inputs of the runs of one Fetch call.
DataRequests ==
  [verb : {"GET", "POST"},
   url : [protocol : {"http", "https"}, host : {"a"}, path : {"", "/p"}, query : {"", "q"}],
   headers : {<<>>, HeadersFromList(<<<<HostLower, "h">>>>)},
   body : {"", "x"},
   deadline : 0 .. MaxDeadline]

DataResponses == {DefaultResponse, UsedResponse}

DataTransportResponses ==
  {NullReq} \cup
  [null : {FALSE}, code : {0, 99, 100, 404, 500},
   headers : {<<>>, << <<HostUpper, "1">>, <<NameA, "2">>, <<HostLower, "3">> >>},
   body : {"", "b"}]

\* Inputs of the runs of NormaliseRequest: every header list of at most
\* MaxHeaders entries over the names above, as a multimap.
HeaderPairs ==
  {<<HostKey, "v">>, <<HostLower, "w">>, <<HostUpper, "v">>, <<NameA, "v">>,
   <<NameA, "w">>, <<NameHos, "w">>}

HeaderLists == UNION {[1 .. n -> HeaderPairs] : n \in 0 .. MaxHeaders}

NormRequests ==
  [verb : {"GET"},
   url : [protocol : {"http", "https"}, host : {"a"}, path : {"", "/p"}, query : {""}],
   headers : {HeadersFromList(l) : l \in HeaderLists},
   body : {""},
   deadline : 0 .. MaxDeadline]

\* ----------------------------------------------------------- specification

\* The state before any Fetch call, for the calls T and a timeout flag of F.
InitOver(T, F) ==
  /\ now = 1
  /\ flag \in F
  /\ fetch_pc = [t \in T |-> "idle"]
  /\ request0 = [t \in T |-> NoRequest]
  /\ response0 = [t \in T |-> DefaultResponse]
  /\ request_ = [t \in T |-> NoRequest]
  /\ response_ = [t \in T |-> DefaultResponse]
  /\ conn_ = [t \in T |-> NoConn]
  /\ state_ = [t \in T |-> "none"]
  /\ holds = [t \in T |-> 0]
  /\ done = [t \in T |-> FALSE]
  /\ log = [t \in T |-> <<>>]
  /\ mr_clock = [t \in T |-> 0]
  /\ rd_clock = [t \in T |-> 0]
  /\ scheduled = {}
  /\ pending = {}
  /\ wire = [t \in T |-> NoWire]
  /\ cb = [t \in T |-> NoCallback]
  /\ idle = {}
  /\ created = 0
  /\ crashed = FALSE

\* The calls of a run.
Calls == DOMAIN fetch_pc

\* The steps of the dispatch thread and of the clock.
Reactor(TR) ==
  \/ \E t \in Calls, addOk \in BOOLEAN, submitOk \in BOOLEAN,
        ub \in {"fault", "stale"}, dbl \in {"ignored", "abort"} :
       MakeRequest(t, addOk, submitOk, ub, dbl)
  \/ \E t \in Calls, r \in TR,
        ub \in {"fault", "stale"}, dbl \in {"ignored", "abort"} :
       RequestDone(t, r, ub, dbl)
  \/ Tick

\* Concurrent Fetch calls.
Init == InitOver(Txns, {DefaultTimeoutSeconds})

Next ==
  \/ Reactor(TransportResponses)
  \/ \E t \in Calls, req \in Requests, resp \in Responses : FetchConstruct(t, req, resp)
  \/ \E t \in Calls : FetchAdd(t)
  \/ \E t \in Calls : FetchRelease(t)

Spec == Init /\ [][Next]_vars

\* One Fetch call, over a wider range of requests and responses.
DataInit == InitOver({1}, TimeoutFlags)

DataNext ==
  \/ Reactor(DataTransportResponses)
  \/ \E req \in DataRequests, resp \in DataResponses : FetchConstruct(1, req, resp)
  \/ FetchAdd(1)
  \/ FetchRelease(1)

DataSpec == DataInit /\ [][DataNext]_vars

\* The construction of one State: NormaliseRequest over its inputs.
NormNext ==
  \/ \E req \in NormRequests, resp \in Responses : FetchConstruct(1, req, resp)
  \/ Tick

NormSpec == DataInit /\ [][NormNext]_vars

\* Fetch calls sharing the pool: one call more than Txns, to two hosts, all
\* within one reading of the clock and with a deadline after it.
PoolTxns == 1 .. NumTxns + 1

PoolRequests ==
  [verb : {"GET"},
   url : [protocol : {"http", "https"}, host : {"a", "b"}, path : {""}, query : {""}],
   headers : {<<>>},
   body : {""},
   deadline : {MaxDeadline}]

PoolTransportResponses ==
  {NullReq, [null |-> FALSE, code |-> 100, headers |-> <<>>, body |-> ""]}

PoolInit == InitOver(PoolTxns, {DefaultTimeoutSeconds})

PoolNext ==
  \/ \E t \in Calls, submitOk \in BOOLEAN,
        ub \in {"fault", "stale"}, dbl \in {"ignored", "abort"} :
       MakeRequest(t, TRUE, submitOk, ub, dbl)
  \/ \E t \in Calls, r \in PoolTransportResponses,
        ub \in {"fault", "stale"}, dbl \in {"ignored", "abort"} :
       RequestDone(t, r, ub, dbl)
  \/ \E t \in Calls, req \in PoolRequests, resp \in Responses : FetchConstruct(t, req, resp)
  \/ \E t \in Calls : FetchAdd(t)
  \/ \E t \in Calls : FetchRelease(t)

PoolSpec == PoolInit /\ [][PoolNext]_vars

\* ------------------------------------------------------ auxiliary notions

\* The State of call t has been constructed.
Constructed(t) == state_[t] # "none"

\* The last status passed to Return by call t ("" when there is none).
LastReturn(t) ==
  LET rs == Returns(log[t]) IN IF rs = <<>> THEN "" ELSE rs[Len(rs)]

\* Gets minus Puts among the first n calls of a record.
Outstanding(l, n) == Count(SubSeq(l, 1, n), "Get") - Count(SubSeq(l, 1, n), "Put")

\* Call t has nothing left to run: Fetch has returned, no closure is queued
\* and no callback is due.
Quiescent(t) ==
  /\ fetch_pc[t] = "returned"
  /\ t \notin scheduled
  /\ t \notin pending
  /\ ~crashed

\* A header name in lower case, and the number of times a pair occurs.
Lower(a) == [i \in DOMAIN a |-> ToLower(a[i])]

Occurs(h, p) == Cardinality({i \in 1 .. Len(h) : h[i] = p})

\* Two header collections hold the same pairs the same number of times.
SamePairs(h, g) ==
  /\ Len(h) = Len(g)
  /\ \A i \in 1 .. Len(h) : Occurs(h, h[i]) = Occurs(g, h[i])

\* ------------------------------------------------------------------ claims

\* C1: a request whose protocol is not "http" has its task returned with
\* InvalidArgument and never has a connection taken from the pool, neither
\* by the constructor nor by the MakeRequest that Fetch schedules.
C1_NonHttpNeverAcquires ==
  \A t \in Calls :
    (Constructed(t) /\ request_[t].url.protocol # "http") =>
      /\ Returns(log[t]) # <<>>
      /\ Returns(log[t])[1] = "INVALID_ARGUMENT"
      /\ Count(log[t], "Get") = 0

\* C2: task.Return is invoked exactly once per Fetch call: never twice, and
\* once when the call has nothing left to run.
C2_ReturnExactlyOnce ==
  \A t \in Calls :
    /\ Count(log[t], "Return") <= 1
    /\ Quiescent(t) => Count(log[t], "Return") = 1

\* C3: every connection a call takes is put back exactly once: never a Put
\* without a Get before it, never two connections out at once, and none out
\* once the task has finished.
C3_HandleReleasedOnce ==
  \A t \in Calls :
    /\ \A n \in 0 .. Len(log[t]) : Outstanding(log[t], n) \in {0, 1}
    /\ (conn_[t] # NoConn) <=> (Outstanding(log[t], Len(log[t])) = 1)
    /\ done[t] => (Outstanding(log[t], Len(log[t])) = 0 /\ conn_[t] = NoConn)

\* C4: whenever task.Return is invoked, the call holds no connection: every
\* connection it took has been put back before.
C4_ReturnHoldsNoConnection ==
  \A t \in Calls :
    /\ \A n \in 1 .. Len(log[t]) :
         log[t][n].ev = "Return" => Outstanding(log[t], n - 1) = 0
    /\ (log[t] # <<>> /\ log[t][Len(log[t])].ev = "Return") => conn_[t] = NoConn

C4_Witness ==
  \E t \in Calls :
    \E n \in 1 .. Len(log[t]) :
      /\ log[t][n].ev = "Return"
      /\ Count(SubSeq(log[t], 1, n - 1), "Get") = 1
      /\ Count(SubSeq(log[t], 1, n - 1), "Put") = 1

\* C5: when MakeRequest runs with the effective deadline at or before the
\* clock, it returns the task with DeadlineExceeded (the only Return of an
\* http request) and the call never takes a connection from the pool.
C5_ExpiredDeadline ==
  \A t \in Calls :
    (mr_clock[t] # 0 /\ request_[t].deadline <= mr_clock[t]) =>
      /\ LastReturn(t) = "DEADLINE_EXCEEDED"
      /\ request_[t].url.protocol = "http" => Returns(log[t]) = <<"DEADLINE_EXCEEDED">>
      /\ Count(log[t], "Get") = 0
      /\ conn_[t] = NoConn

\* A deadline defaulted by normalisation that has just been reached.
C5_Witness ==
  \E t \in Calls :
    /\ request0[t].deadline = 0
    /\ mr_clock[t] = request_[t].deadline
    /\ request_[t].url.protocol = "http"
    /\ Returns(log[t]) = <<"DEADLINE_EXCEEDED">>

\* C6: the task has not finished as long as Fetch has not scheduled
\* MakeRequest and released its hold, whoever called Return meanwhile.
C6_NotDoneBeforeFetchReturns ==
  \A t \in Calls : done[t] => fetch_pc[t] = "returned"

\* Return was called by the constructor, and by MakeRequest on the dispatch
\* thread, while Fetch still held the task.
C6_Witness ==
  /\ \E t \in Calls :
       /\ fetch_pc[t] = "added"
       /\ request_[t].url.protocol = "http"
       /\ mr_clock[t] # 0
       /\ Returns(log[t]) # <<>>
       /\ ~done[t]

\* C7: in RequestDone with a non-null request, a status code below 100
\* returns the task with FailedPrecondition, and a status code of 100 or
\* more returns it with OK, the Response then holding the transport's
\* status code, exactly its headers, and its body.
C7_StatusBoundary ==
  \A t \in Calls :
    (cb[t] # NoCallback /\ ~cb[t].null) =>
      IF cb[t].code < 100
      THEN LastReturn(t) = "FAILED_PRECONDITION"
      ELSE /\ LastReturn(t) = "OK"
           /\ response_[t].status_code = cb[t].code
           /\ SamePairs(response_[t].headers, cb[t].headers)
           /\ response_[t].body = cb[t].body

\* Status 100 on a Response that held other headers before.
C7_Witness ==
  \E t \in Calls :
    /\ cb[t] # NoCallback
    /\ ~cb[t].null
    /\ cb[t].code = 100
    /\ response0[t].headers # <<>>
    /\ cb[t].headers # <<>>
    /\ LastReturn(t) = "OK"

\* C8: RequestDone with a null request puts the connection back, then
\* returns the task with Unknown, and leaves the Response as it was.
C8_NullResponse ==
  \A t \in Calls :
    (cb[t] # NoCallback /\ cb[t].null) =>
      /\ Len(log[t]) >= 2
      /\ log[t][Len(log[t]) - 1] = Ev("Put", "")
      /\ log[t][Len(log[t])] = Ev("Return", "UNKNOWN")
      /\ conn_[t] = NoConn
      /\ \E c \in idle : c.key = request_[t].url.host
      /\ response_[t] = response0[t]

C8_Witness ==
  \E t \in Calls :
    /\ cb[t] = NullReq
    /\ request_[t].url.protocol = "http"
    /\ response0[t] # DefaultResponse
    /\ LastReturn(t) = "UNKNOWN"

C10_HostHeader ==
  \A t \in Calls :
    Constructed(t) =>
      LET in == request0[t].headers
          out == request_[t].headers
          host == <<HostKey, request0[t].url.host>>
          present == \E i \in 1 .. Len(in) : Lower(in[i][1]) = Lower(HostKey)
      IN /\ present => out = in
         /\ ~present =>
              /\ Len(out) = Len(in) + 1
              /\ Occurs(out, host) = 1
              /\ \A i \in 1 .. Len(in) : Occurs(out, in[i]) = Occurs(in, in[i])
         /\ \A i \in 1 .. Len(in) : Occurs(out, in[i]) >= Occurs(in, in[i])

\* Both cases: a header named "HOST" kept alone, and Host inserted next to
\* a header named "Hos".
C10_Witness ==
  \E t \in Calls :
    /\ Constructed(t)
    /\ \E i \in 1 .. Len(request0[t].headers) : request0[t].headers[i][1] = HostUpper
    /\ ~\E i \in 1 .. Len(request0[t].headers) : request0[t].headers[i][1] = HostKey
    /\ request_[t].headers = request0[t].headers

\* C11: NormaliseRequest replaces a zero deadline by the clock it reads plus
\* the timeout flag and leaves any other deadline as the caller gave it; no
\* connection is ever taken and nothing is ever submitted for a State whose
\* deadline is still zero.
C11_DeadlineDefault ==
  /\ [][\A t \in Calls :
          (fetch_pc[t] = "idle" /\ fetch_pc'[t] = "constructed") =>
            request_'[t].deadline =
              IF request0'[t].deadline = 0 THEN now + flag ELSE request0'[t].deadline]_vars
  /\ [](\A t \in Calls :
          (Count(log[t], "Get") > 0 \/ wire[t] # NoWire) => request_[t].deadline # 0)

C11_Witness ==
  \E t \in Calls :
    /\ request0[t].deadline = 0
    /\ request_[t].deadline > mr_clock[t]
    /\ Count(log[t], "Get") > 0
    /\ wire[t] # NoWire

\* C12: NormaliseRequest turns an empty path into "/" and leaves any other
\* path, the verb, the body and the query as the caller gave them; whatever
\* is submitted carries the stored path, which is not empty, and the
\* caller's query.
C12_PathDefault ==
  \A t \in Calls :
    /\ Constructed(t) =>
         /\ request_[t].url.path =
              IF request0[t].url.path = "" THEN "/" ELSE request0[t].url.path
         /\ request_[t].verb = request0[t].verb
         /\ request_[t].body = request0[t].body
         /\ request_[t].url.query = request0[t].url.query
    /\ wire[t] # NoWire =>
         /\ wire[t].uri[1] # ""
         /\ wire[t].uri = <<request_[t].url.path, request0[t].url.query>>

C12_Witness ==
  \E t \in Calls :
    /\ request0[t].url.path = ""
    /\ request0[t].url.query = "q"
    /\ request0[t].verb = "POST"
    /\ request0[t].body = "x"
    /\ wire[t].uri = <<"/", "q">>

\* C13: the calls of one transaction come in the order Get, submission, Put,
\* Return: a submission directly follows a Get, a Put follows a submission,
\* the Put comes directly after a submission that succeeded (RequestDone
\* puts the connection back before anything else), and no Get, submission
\* or Put follows a Return.
C13_EventOrder ==
  \A t \in Calls :
    \A i \in 1 .. Len(log[t]) :
      /\ log[t][i].ev = "Submit" => (i > 1 /\ log[t][i - 1].ev = "Get")
      /\ log[t][i].ev = "Put" => \E j \in 1 .. i - 1 : log[t][j].ev = "Submit"
      /\ (log[t][i] = Ev("Submit", "ok") /\ i < Len(log[t])) => log[t][i + 1].ev = "Put"
      /\ log[t][i].ev = "Return" =>
           \A j \in i + 1 .. Len(log[t]) : log[t][j].ev \notin {"Get", "Submit", "Put"}

\* C14: with several transactions in flight, to the same host or not, no
\* connection is held by two of them at once, and a connection a
\* transaction holds is not among the pool's idle ones, so the pool cannot
\* hand it out again before it is put back.
C14_HandleExclusive ==
  /\ \A t1, t2 \in Calls : (t1 # t2 /\ conn_[t1] # NoConn) => conn_[t1] # conn_[t2]
  /\ \A t \in Calls : conn_[t] # NoConn => conn_[t] \notin idle

C14_Witness ==
  \E t1, t2 \in Calls :
    /\ t1 # t2
    /\ request_[t1].url.protocol = "http" /\ request_[t2].url.protocol = "http"
    /\ t1 \in pending /\ t2 \in pending
    /\ conn_[t1] # NoConn /\ conn_[t2] # NoConn
    /\ conn_[t1].key = conn_[t2].key

\* C15: when evhttp_make_request fails, MakeRequest puts the connection
\* back at once and returns the task with Internal; the request is not left
\* with the transport, RequestDone is never called for it, and so the
\* connection is put back that one time only.
C15_SubmitFailure ==
  \A t \in Calls :
    \A i \in 1 .. Len(log[t]) :
      log[t][i] = Ev("Submit", "error") =>
        /\ Len(log[t]) >= i + 2
        /\ log[t][i + 1].ev = "Put"
        /\ log[t][i + 2] = Ev("Return", "INTERNAL")
        /\ Count(log[t], "Put") = 1
        /\ conn_[t] = NoConn
        /\ t \notin pending
        /\ rd_clock[t] = 0
        /\ cb[t] = NoCallback

C15_Witness ==
  \E t \in Calls :
    /\ request_[t].url.protocol = "http"
    /\ Count(log[t], "Submit") = 1
    /\ \E i \in 1 .. Len(log[t]) : log[t][i] = Ev("Submit", "error")
    /\ LastReturn(t) = "INTERNAL"
    /\ Quiescent(t)
    /\ done[t]

\* C16: over the whole life of a transaction there is at most one Get and
\* at most one submission: a failed submission, a null request or a status
\* code under 100 is followed by no second attempt.
C16_NoRetry ==
  \A t \in Calls :
    /\ Count(log[t], "Get") <= 1
    /\ Count(log[t], "Submit") <= 1

C16_Witness ==
  \E t \in Calls :
    /\ request_[t].url.protocol = "http"
    /\ cb[t] = NullReq
    /\ LastReturn(t) = "UNKNOWN"
    /\ Count(log[t], "Get") = 1
    /\ Count(log[t], "Submit") = 1
    /\ Quiescent(t)
    /\ done[t]

C18_NeverStuck ==
  \A t \in Calls :
    Constructed(t) =>
      \/ done[t]
      \/ /\ ~crashed
         /\ \/ fetch_pc[t] # "returned"
            \/ t \in scheduled
            \/ t \in pending

\* C19: no MakeRequest and no RequestDone runs on a State that has been
\* deleted: each step of a transaction runs before its task has finished.
C19_NoStepAfterDestroy ==
  [][\A t \in Calls :
       ((t \in scheduled /\ t \notin scheduled') \/ (t \in pending /\ t \notin pending')) =>
         (state_[t] = "alive" /\ ~done[t])]_vars

\* C20: the CHECKs on conn_ never fail: conn_ is empty when MakeRequest is
\* entered, set when RequestDone is entered, and empty when the State is
\* deleted.
C20_ConnectionChecks ==
  [][\A t \in Calls :
       /\ (t \in scheduled /\ t \notin scheduled') => conn_[t] = NoConn
       /\ (t \in pending /\ t \notin pending') => conn_[t] # NoConn
       /\ (state_[t] = "alive" /\ state_'[t] = "destroyed") => conn_'[t] = NoConn]_vars
====
